---- MODULE Spec2Model ----
(***************************************************************************)
(* Model of strandedness.py: the per-experiment loop of __main__           *)
(* (sampling and fetching bins with get_hisat_input, aligning with         *)
(* align_reads, selecting primary alignments with filter_alignments,       *)
(* classifying them with read_sense and accumulating the two statistics).  *)
(*                                                                         *)
(* Time is counted in whole seconds.  The weighted accumulators, floats in *)
(* the source, are binary floating-point numbers with a significand of     *)
(* MantissaBits bits, rounded to nearest with ties to even after every     *)
(* division and addition; a value is held as an integer number of units of *)
(* 1/WeightUnit.                                                           *)
(***************************************************************************)
EXTENDS Integers, Sequences, FiniteSets, TLC

(***************************************************************************)
(* Bounds of the model.  num_bins and minimum_spots are scaled down from   *)
(* the source's values (100 bins, 10000000 spots) so that every bin of an  *)
(* experiment can be walked through.                                       *)
(***************************************************************************)
num_bins == 3
minimum_spots == 6
MaxGroupLen == 2
MaxGroups == 3
MaxFlag == 255
\* significand width of a float (53 in the source's IEEE doubles)
MantissaBits == 7
\* most lines in a payload of fastq-dump
MaxLines == 9

(***************************************************************************)
(* Program constants.                                                      *)
(***************************************************************************)
max_time == 300
back_off == 3
max_attempts == 3
\* download_and_quantify_fastqs.py, collect_fastq_files
collect_max_time == 3000
collect_back_off == 3

VARIABLES
    experiments,        \* rows of the SRA csv: [acc, num_spots, paired]
    required_reads,     \* --required-reads
    read_multiplier,    \* --multiplier
    pc,                 \* position in __main__
    exp_i,              \* index of the row the csv reader is at
    bin,                \* get_hisat_input: bin counter
    start_spot,         \* get_hisat_input: start of the sampled slice
    delay,              \* get_hisat_input: current back-off delay
    dl_attempt,         \* get_hisat_input: attempt
    bin_time,           \* get_hisat_input: seconds since bin_start
    read_format,        \* get_hisat_input: reshaped units so far
    lines,              \* get_hisat_input: the split payload of the last fetch
    requests,           \* history: the <<bin, spot, stop_spot>> of this experiment
    sleeps,             \* history: the waits of the current bin's fetch
    fail_file,          \* contents of failed_expts_<tag>.txt
    timed_out,          \* history: accessions whose fetch raised TimeOut
    attempt,            \* __main__: alignment attempt counter
    align_log,          \* history: exit statuses of align_reads, this experiment
    gave_up,            \* history: accessions whose alignment never succeeded
    random_sense, random_checked, weighted_sense, weighted_checked,
    groups_read,        \* groups consumed from the aligned reads so far
    alignments,         \* the group handed to filter_alignments last
    first_reads,        \* filter_alignments: the coin flip (-1: none drawn)
    filtered,           \* value returned by filter_alignments
    primary_alignments, \* the returned list after random.shuffle
    pval_rand_file, pval_weigh_file,   \* rows written to the p-value tables
    SAM_flag, plus_or_minus, sense,    \* read_sense: arguments and result
    rng,                \* state of the module random: seed and calls since
    memo,               \* history: what random returned, by state and call
    run_log,            \* history: draws and counters of each row
    \* download_and_quantify_fastqs.py; its pc, delay, dl_attempt, bin_time,
    \* sleeps, fail_file and timed_out are the variables above
    accession_numbers,  \* the sampled accessions
    existing_fastqs,    \* collect_fastq_files: success_file as read at entry
    success_file,       \* contents of downloaded_sras_<tag>.txt
    acc_i,              \* index of acc in the loop being run
    attempted,          \* history: accessions fastq-dump was called for
    quantified          \* history: accessions unstranded and quantified

vars == <<experiments, required_reads, read_multiplier, pc, exp_i, bin,
          start_spot, delay, dl_attempt, bin_time, read_format, lines,
          requests, sleeps, fail_file, timed_out, attempt, align_log, gave_up,
          random_sense, random_checked, weighted_sense, weighted_checked, groups_read,
          alignments, first_reads, filtered, primary_alignments,
          pval_rand_file, pval_weigh_file, SAM_flag, plus_or_minus, sense,
          rng, memo, run_log,
          accession_numbers, existing_fastqs, success_file, acc_i, attempted,
          quantified>>

(***************************************************************************)
(* Integer helpers.                                                        *)
(***************************************************************************)
RECURSIVE Pow(_, _)
Pow(b, n) == IF n = 0 THEN 1 ELSE b * Pow(b, n - 1)

\* flag & mask == mask, for a mask that is a single power of two
BitSet(flag, mask) == (flag \div mask) % 2 = 1

RECURSIVE MaxOf(_)
MaxOf(s) ==
    IF Len(s) = 1 THEN s[1]
    ELSE LET m == MaxOf(Tail(s)) IN IF s[1] >= m THEN s[1] ELSE m

(***************************************************************************)
(* Floating point.  1.0 is WeightUnit units; the unit is fine enough that  *)
(* every quotient 1/n and every sum the program forms lies on the grid.    *)
(***************************************************************************)
WeightUnit == Pow(2, MantissaBits + 2 * MaxGroupLen)

RECURSIVE BitLen(_)
BitLen(m) == IF m = 0 THEN 0 ELSE 1 + BitLen(m \div 2)

\* the spacing of the floats around a value of m units
Ulp(m) == IF BitLen(m) > MantissaBits THEN Pow(2, BitLen(m) - MantissaBits)
          ELSE 1

\* num/den units rounded to the nearest float, ties to even
RoundNearestEven(num, den) ==
    LET ulp == Ulp(num \div den)
        q   == num \div (den * ulp)
        r   == num - q * den * ulp
        up  == 2 * r > den * ulp \/ (2 * r = den * ulp /\ q % 2 = 1)
    IN  (IF up THEN q + 1 ELSE q) * ulp

\* x + y of two floats
fadd(x, y) == RoundNearestEven(x + y, 1)

\* 1 / float(n)
fdiv1(n) == RoundNearestEven(WeightUnit, n)

(***************************************************************************)
(* SAM records.  An entry is a line of the aligner's output: its first     *)
(* two tab-separated fields (read name, flag) and its optional TAG:TYPE:   *)
(* fields, each kept as the five-character prefix and the rest.            *)
(***************************************************************************)
\* int(): the decimal strings that occur in the records
int(str) == CASE str = "1" -> 1 [] str = "2" -> 2
              [] str = "20" -> 20 [] str = "30" -> 30

Field(p, v) == [prefix |-> p, rest |-> v]

TagLists ==
    { << Field("NH:i:", "1") >>,
      << Field("AS:i:", "20"), Field("XS:A:", "+"), Field("NH:i:", "2") >>,
      << Field("AS:i:", "30"), Field("NH:i:", "1") >>,
      << Field("AS:i:", "30"), Field("XS:A:", "-") >>,
      << Field("AS:i:", "30"), Field("XS:A:", "+") >> }

\* 0: unpaired forward; 83: paired, first mate, reverse; 147: paired,
\* second mate, reverse
GroupFlags == {0, 83, 147}

Entries == [flag : GroupFlags, tags : TagLists]

SeqsUpTo(S, n) == UNION { [1..k -> S] : k \in 1..n }

Groups == SeqsUpTo(Entries, MaxGroupLen)

(***************************************************************************)
(* read_sense                                                              *)
(***************************************************************************)
read_sense_first_only(flag, xs) ==
    LET fwd_gene == xs[1] = "XS:A:+"
        rev_read == BitSet(flag, 16)
        first_read == BitSet(flag, 64)
    IN  (fwd_gene # rev_read) = first_read

read_sense(flag, xs) ==
    LET fwd_gene == xs[1] = "XS:A:+"
        paired == BitSet(flag, 1)
        rev_read == BitSet(flag, 16)
        first_read == BitSet(flag, 64)
    IN  (fwd_gene # rev_read) = (first_read \/ ~paired)

(***************************************************************************)
(* filter_alignments                                                       *)
(***************************************************************************)
\* the scores of the AS:i: fields of one entry, in field order
RECURSIVE entry_scores(_)
entry_scores(tags) ==
    IF tags = <<>> THEN <<>>
    ELSE (IF Head(tags).prefix = "AS:i:" THEN <<int(Head(tags).rest)>> ELSE <<>>)
         \o entry_scores(Tail(tags))

\* alignment_scores: one element per AS:i: field found, entry after entry
RECURSIVE alignment_scores(_)
alignment_scores(group) ==
    IF group = <<>> THEN <<>>
    ELSE entry_scores(Head(group).tags) \o alignment_scores(Tail(group))

\* [group[i] for i, score in enumerate(scores) if score == max], from index i
RECURSIVE pick_max(_, _, _, _)
pick_max(group, scores, max, i) ==
    IF i > Len(scores) THEN <<>>
    ELSE (IF scores[i] = max THEN <<group[i]>> ELSE <<>>)
         \o pick_max(group, scores, max, i + 1)

\* the scan without the comparison with the flip
RECURSIVE single_end_any_mate(_, _)
single_end_any_mate(primary, flip) ==
    IF primary = <<>> THEN <<>>
    ELSE IF ~BitSet(Head(primary).flag, 1) THEN <<>>
    ELSE <<Head(primary)>> \o single_end_any_mate(Tail(primary), flip)

\* the mate-resolution scan: stops at the first entry without the paired bit
RECURSIVE single_end(_, _)
single_end(primary, flip) ==
    IF primary = <<>> THEN <<>>
    ELSE IF ~BitSet(Head(primary).flag, 1) THEN <<>>
    ELSE (IF (flip = 1) = BitSet(Head(primary).flag, 64)
          THEN <<Head(primary)>> ELSE <<>>)
         \o single_end(Tail(primary), flip)

\* The value returned; the int 0 returned when no score was found is
\* written <<>>: the caller only tests the result's truth value.
filter_alignments(group, paired_tag, flip) ==
    LET scores == alignment_scores(group) IN
    IF scores = <<>> THEN <<>>
    ELSE LET max_alignment_score == MaxOf(scores)
             primary == pick_max(group, scores, max_alignment_score, 1)
         IN  IF paired_tag THEN single_end(primary, flip) ELSE primary

(***************************************************************************)
(* The aggregation loop body of __main__ for one group.                    *)
(***************************************************************************)
\* re.findall('XS:A:[+-]', entry)
RECURSIVE XS_A(_)
XS_A(tags) ==
    IF tags = <<>> THEN <<>>
    ELSE (IF Head(tags).prefix = "XS:A:" /\ Head(tags).rest \in {"+", "-"}
          THEN <<IF Head(tags).rest = "+" THEN "XS:A:+" ELSE "XS:A:-">>
          ELSE <<>>)
         \o XS_A(Tail(tags))

Bit(b) == IF b THEN 1 ELSE 0

\* the pass without the one_read test
accumulate_entry_every(c, entry, weight) ==
    LET xs == XS_A(entry.tags) IN
    IF xs = <<>> THEN c
    ELSE LET s == Bit(read_sense(entry.flag, xs)) IN
         [ weighted_sense   |-> fadd(c.weighted_sense, s * weight),
           weighted_checked |-> fadd(c.weighted_checked, weight),
           random_sense     |-> c.random_sense + s,
           random_checked   |-> c.random_checked + 1,
           one_read         |-> TRUE ]

\* the pass without the "if XS_A" test: an untagged entry is counted as
\* checked
accumulate_entry_untagged(c, entry, weight) ==
    LET xs == XS_A(entry.tags)
        s  == IF xs = <<>> THEN 0 ELSE Bit(read_sense(entry.flag, xs))
    IN  [ weighted_sense   |-> fadd(c.weighted_sense, s * weight),
          weighted_checked |-> fadd(c.weighted_checked, weight),
          random_sense     |-> IF c.one_read THEN c.random_sense
                               ELSE c.random_sense + s,
          random_checked   |-> IF c.one_read THEN c.random_checked
                               ELSE c.random_checked + 1,
          one_read         |-> TRUE ]

\* one pass of "for entry in primary_alignments" over the counters c
accumulate_entry(c, entry, weight) ==
    LET xs == XS_A(entry.tags) IN
    IF xs = <<>> THEN c
    ELSE LET s == Bit(read_sense(entry.flag, xs)) IN
         [ weighted_sense   |-> fadd(c.weighted_sense, s * weight),
           weighted_checked |-> fadd(c.weighted_checked, weight),
           random_sense     |-> IF c.one_read THEN c.random_sense
                                ELSE c.random_sense + s,
           random_checked   |-> IF c.one_read THEN c.random_checked
                                ELSE c.random_checked + 1,
           one_read         |-> TRUE ]

RECURSIVE accumulate(_, _, _)
accumulate(c, primary, weight) ==
    IF primary = <<>> THEN c
    ELSE accumulate(accumulate_entry(c, Head(primary), weight),
                    Tail(primary), weight)

\* a weight of one whole read
group_weight_whole(primary) == WeightUnit

\* weight = 1 / num_primaries
group_weight(primary) == fdiv1(Len(primary))

\* the list random.shuffle leaves when it draws the permutation p
shuffle(s, p) == [i \in 1..Len(s) |-> s[p[i]]]

\* the orders random.shuffle can leave the list in
Shuffles(s) == { shuffle(s, p) : p \in Permutations(1..Len(s)) }

(***************************************************************************)
(* get_hisat_input: bins, sampled slice, reshaping                         *)
(***************************************************************************)
required_spots == required_reads * read_multiplier
bin_spots == required_spots \div num_bins
bin_size(total) == total \div num_bins
\* bins that share their end spots
bin_start_shared(b, total) == (b - 1) * bin_size(total)
bin_start(b, total) == (b - 1) * bin_size(total) + 1
bin_stop(b, total) == b * bin_size(total)

\* the values of random.randint(bin_start, bin_stop)
start_spots_to_stop(b, total) == bin_start(b, total) .. bin_stop(b, total)

\* the values random.randint(bin_start, bin_stop - bin_spots) can return
start_spots(b, total) == bin_start(b, total) .. (bin_stop(b, total) - bin_spots)

\* the loop over enumerate(lines, 1), from line i of ls with
\* format_lines = fl
RECURSIVE reshape(_, _, _, _)
reshape(ls, last_line, i, fl) ==
    IF i > Len(ls) THEN <<>>
    ELSE LET fl2 == IF i % 2 = 0 THEN Append(fl, ls[i])
                    ELSE IF (i - 1) % last_line = 0 THEN Append(fl, ls[i])
                    ELSE fl
         IN  IF i % last_line = 0
             THEN <<fl2>> \o reshape(ls, last_line, i + 1, <<>>)
             ELSE reshape(ls, last_line, i + 1, fl2)

\* fastq.split('\n') of a payload of n lines, each ended by a newline:
\* line i is written i, and the empty string after the last newline 0
payload(n) == [i \in 1..(n + 1) |-> IF i <= n THEN i ELSE 0]

\* seconds a failing fastq-dump call can take
AttemptSeconds == {0, 120}

(***************************************************************************)
(* The input: the rows of the csv and the command line                     *)
(***************************************************************************)
AccNames == <<"SRR1", "SRR2">>
Totals == {minimum_spots - 1, minimum_spots, minimum_spots + 4}

Rows(i) == [acc : {AccNames[i]}, num_spots : Totals, paired : BOOLEAN]

experiment == experiments[exp_i]
sra_acc == experiment.acc
num_spots == experiment.num_spots
paired == experiment.paired

(***************************************************************************)
(* The module random.  The generator is deterministic: its state is fixed  *)
(* by the last seed and the calls made since, and a call made in a state   *)
(* it was made in before returns what it returned then.  What was returned *)
(* is remembered for the accessions the csv holds more than once.          *)
(***************************************************************************)
\* mmh3.hash(sra_acc): a hash taken to tell the accessions of a run apart
mmh3_hash(str) == str

\* the generator left as it was
random_seed_kept(state, seed) == state

\* random.seed(seed)
random_seed(state, seed) == [seed |-> seed, calls |-> <<>>]

\* the state after a call of random.randint, getrandbits or shuffle
random_call(state, call) == [state EXCEPT !.calls = Append(@, call)]

Repeats(m, state, call, value) ==
    \A e \in m : (e.state = state /\ e.call = call) => e.value = value

Tracked(a) ==
    Cardinality({ i \in 1..Len(experiments) : experiments[i].acc = a }) > 1

Remember(m, a, state, call, value) ==
    IF Tracked(a)
    THEN m \cup {[state |-> state, call |-> call, value |-> value]}
    ELSE m

\* the generator after a call made for accession a; its calls are followed
\* for the accessions whose values are remembered
after_call(a, state, call) ==
    IF Tracked(a) THEN random_call(state, call) ELSE state

EmptyLog == [offsets |-> <<>>, groups |-> <<>>, flips |-> <<>>,
             orders |-> <<>>, counters |-> <<0, 0, 0, 0>>]

\* the interpreter has started: the generator is seeded by the system
NoRandom ==
    /\ rng = [seed |-> "os", calls |-> <<>>]
    /\ memo = {}
    /\ run_log = [i \in 1..Len(AccNames) |-> EmptyLog]

\* download_and_quantify_fastqs.py is not running
NoCollect ==
    /\ accession_numbers = <<>> /\ existing_fastqs = {} /\ success_file = <<>>
    /\ acc_i = 0 /\ attempted = {} /\ quantified = {}

NoCounters ==
    /\ random_sense = 0 /\ random_checked = 0
    /\ weighted_sense = 0 /\ weighted_checked = 0

Init ==
    /\ experiments \in { e \in [1..Len(AccNames) -> UNION {Rows(i) : i \in 1..Len(AccNames)}] :
                           \A i \in 1..Len(AccNames) : e[i].acc = AccNames[i] }
    /\ required_reads = 3
    /\ read_multiplier \in {1, 2}
    /\ pc = "loop"
    /\ exp_i = 1
    /\ bin = 0 /\ start_spot = 0 /\ delay = 0 /\ dl_attempt = 0 /\ bin_time = 0
    /\ read_format = <<>> /\ lines = <<>>
    /\ requests = {}
    /\ sleeps = <<>>
    /\ fail_file = <<>>
    /\ timed_out = {}
    /\ attempt = 0
    /\ align_log = <<>>
    /\ gave_up = {}
    /\ NoCounters /\ NoCollect /\ NoRandom
    /\ groups_read = 0
    /\ alignments = <<>> /\ first_reads = -1 /\ filtered = <<>>
    /\ primary_alignments = <<>>
    /\ pval_rand_file = <<>> /\ pval_weigh_file = <<>>
    /\ SAM_flag = 0 /\ plus_or_minus = <<"XS:A:+">> /\ sense = FALSE

inputs == <<experiments, required_reads, read_multiplier>>
fetch_locals == <<bin, start_spot, delay, dl_attempt, bin_time, read_format, lines,
                  requests, sleeps>>
counters == <<random_sense, random_checked, weighted_sense, weighted_checked>>
group_locals == <<groups_read, alignments, first_reads, filtered,
                  primary_alignments>>
tables == <<pval_rand_file, pval_weigh_file>>
logs == <<fail_file, timed_out, gave_up>>
sense_call == <<SAM_flag, plus_or_minus, sense>>
prng == <<rng, memo, run_log>>
collect == <<accession_numbers, existing_fastqs, success_file, acc_i,
             attempted, quantified>>

\* the locals of get_hisat_input once it has returned or raised
LeaveFetch ==
    /\ bin' = 0 /\ start_spot' = 0 /\ delay' = 0 /\ dl_attempt' = 0
    /\ bin_time' = 0 /\ read_format' = <<>> /\ lines' = <<>> /\ sleeps' = <<>>
    /\ requests' = {}

\* the names bound in the body of the loop over the groups, before a group
NoGroup ==
    /\ alignments' = <<>> /\ first_reads' = -1 /\ filtered' = <<>>
    /\ primary_alignments' = <<>>

\* "continue": the csv reader moves to the next row
NextRow ==
    /\ pc' = "loop"
    /\ exp_i' = exp_i + 1

(***************************************************************************)
(* __main__: the loop over the experiments                                 *)
(***************************************************************************)
\* num_spots < minimum_spots: the row is skipped
SkipExperiment ==
    /\ pc = "loop" /\ exp_i <= Len(experiments)
    /\ num_spots < minimum_spots
    /\ NextRow
    /\ UNCHANGED <<collect, prng, inputs, fetch_locals, logs, attempt, align_log, counters,
                   group_locals, tables, sense_call>>

\* the generator is seeded and get_hisat_input is entered
BeginExperiment ==
    /\ pc = "loop" /\ exp_i <= Len(experiments)
    /\ ~(num_spots < minimum_spots)
    /\ bin' = 1
    /\ read_format' = <<>> /\ lines' = <<>>
    /\ rng' = random_seed(rng, mmh3_hash(sra_acc))
    /\ pc' = "bin"
    /\ UNCHANGED <<collect, memo, run_log, inputs, exp_i, start_spot, delay, dl_attempt, bin_time,
                   requests, sleeps, logs, attempt, align_log, counters,
                   group_locals, tables, sense_call>>

\* one pass of "while bin <= num_bins" up to the fetch loop: the slice of
\* the bin is drawn and its two ends are made the arguments of fastq-dump
SampleBin ==
    /\ pc = "bin" /\ bin <= num_bins
    /\ \E s \in start_spots(bin, num_spots) :
          LET call == <<"randint", bin_start(bin, num_spots),
                        bin_stop(bin, num_spots) - bin_spots>>
          IN  /\ Repeats(memo, rng, call, s)
              /\ memo' = Remember(memo, sra_acc, rng, call, s)
              /\ rng' = after_call(sra_acc, rng, call)
              /\ run_log' = IF Tracked(sra_acc)
                            THEN [run_log EXCEPT
                                    ![exp_i].offsets = Append(@, s)]
                            ELSE run_log
              /\ start_spot' = s
              /\ requests' = requests \cup {<<bin, s, s + bin_spots>>}
    /\ bin' = bin + 1
    /\ bin_time' = 0
    /\ delay' = 1
    /\ dl_attempt' = 1
    /\ sleeps' = <<>>
    /\ pc' = "fetch"
    /\ UNCHANGED <<collect, inputs, exp_i, read_format, lines, logs, attempt, align_log,
                   counters, group_locals, tables, sense_call>>

\* random.randint on an empty range raises ValueError, which nothing catches
SampleBinError ==
    /\ pc = "bin" /\ bin <= num_bins
    /\ start_spots(bin, num_spots) = {}
    /\ pc' = "error"
    /\ UNCHANGED <<collect, prng, inputs, exp_i, fetch_locals, logs, attempt, align_log,
                   counters, group_locals, tables, sense_call>>

\* the wait that follows a failure, given the delay before it
next_delay_unscaled(d) == d
next_delay(d) == d * back_off

\* fastq-dump fails after d seconds: back off, sleep, measure the time
FetchFail(d) ==
    /\ pc = "fetch" /\ bin_time <= max_time
    /\ delay' = next_delay(delay)
    /\ sleeps' = Append(sleeps, delay')
    /\ dl_attempt' = dl_attempt + 1
    /\ bin_time' = bin_time + d + delay'
    /\ UNCHANGED <<collect, prng, inputs, pc, exp_i, bin, start_spot, read_format, lines, requests,
                   logs, attempt, align_log, counters, group_locals, tables,
                   sense_call>>

\* fastq-dump returns n lines: they are reshaped; after the last bin
\* get_hisat_input returns and the alignment loop starts
FetchSuccess(n) ==
    /\ pc = "fetch" /\ bin_time <= max_time
    /\ LET last_line == 4 * (Bit(paired) + 1)
           units == reshape(payload(n), last_line, 1, <<>>)
       IN  IF bin <= num_bins
           THEN /\ lines' = payload(n)
                /\ read_format' = read_format \o units
                /\ pc' = "bin"
                /\ UNCHANGED <<bin, start_spot, delay, dl_attempt, bin_time,
                               requests, sleeps, attempt, align_log>>
           ELSE /\ LeaveFetch
                /\ attempt' = 0
                /\ align_log' = <<>>
                /\ pc' = "align"
    /\ UNCHANGED <<collect, prng, inputs, exp_i, logs, counters, group_locals, tables,
                   sense_call>>

\* the file after open(fail_file, mode) and one write of acc
write_fail_file(file, acc) == <<acc>>

\* the while's else without the raise: the alignment loop is entered
FetchTimeOutNoRaise ==
    /\ pc = "fetch" /\ ~(bin_time <= max_time)
    /\ fail_file' = write_fail_file(fail_file, sra_acc)
    /\ timed_out' = timed_out \cup {sra_acc}
    /\ LeaveFetch
    /\ attempt' = 0
    /\ align_log' = <<>>
    /\ pc' = "align"
    /\ UNCHANGED <<collect, prng, inputs, exp_i, gave_up, counters, group_locals, tables,
                   sense_call>>

\* the while's else: the accession is logged, TimeOut is raised and caught
\* by __main__, which continues with the next row
FetchTimeOut ==
    /\ pc = "fetch" /\ ~(bin_time <= max_time)
    /\ fail_file' = write_fail_file(fail_file, sra_acc)
    /\ timed_out' = timed_out \cup {sra_acc}
    /\ LeaveFetch
    /\ NextRow
    /\ UNCHANGED <<collect, prng, inputs, gave_up, attempt, align_log, counters,
                   group_locals, tables, sense_call>>

\* "if not failure: break"
break_never(failure) == FALSE
break(failure) == failure = 0

\* one pass of "while attempt < max_attempts": align_reads exits with failure
AlignReads(failure) ==
    /\ pc = "align" /\ attempt < max_attempts
    /\ align_log' = Append(align_log, failure)
    /\ attempt' = attempt + 1
    /\ IF break(failure)
       THEN /\ random_sense' = 0 /\ random_checked' = 0
            /\ weighted_sense' = 0 /\ weighted_checked' = 0
            /\ groups_read' = 0
            /\ NoGroup
            /\ pc' = "groups"
       ELSE /\ UNCHANGED <<counters, group_locals, pc>>
    /\ UNCHANGED <<collect, prng, inputs, exp_i, fetch_locals, logs, tables, sense_call>>

\* the while's else: every attempt failed
AlignGiveUp ==
    /\ pc = "align" /\ ~(attempt < max_attempts)
    /\ gave_up' = gave_up \cup {sra_acc}
    /\ align_log' = <<>>
    /\ NextRow
    /\ UNCHANGED <<collect, prng, inputs, fetch_locals, fail_file, timed_out, attempt,
                   counters, group_locals, tables, sense_call>>

\* one pass of "for key, group in groupby(aligned_reads, ...)"
ProcessGroup(group) ==
    /\ pc = "groups" /\ groups_read < MaxGroups
    /\ groups_read' = groups_read + 1
    /\ alignments' = group
    /\ \E flip \in (IF paired /\ alignment_scores(group) # <<>>
                    THEN {0, 1} ELSE {-1}) :
       \E shuffled \in Shuffles(filter_alignments(group, paired, flip)) :
          LET bits     == <<"getrandbits", 1>>
              drawn    == flip # -1
              rng1     == IF drawn THEN after_call(sra_acc, rng, bits)
                          ELSE rng
              memo1    == IF drawn
                          THEN Remember(memo, sra_acc, rng, bits, flip)
                          ELSE memo
              result   == filter_alignments(group, paired, flip)
              call     == <<"shuffle", result>>
              c == IF result = <<>>
                   THEN [ weighted_sense |-> weighted_sense,
                          weighted_checked |-> weighted_checked,
                          random_sense |-> random_sense,
                          random_checked |-> random_checked ]
                   ELSE accumulate(
                          [ weighted_sense |-> weighted_sense,
                            weighted_checked |-> weighted_checked,
                            random_sense |-> random_sense,
                            random_checked |-> random_checked,
                            one_read |-> FALSE ],
                          shuffled, group_weight(result))
          IN  /\ drawn => Repeats(memo, rng, bits, flip)
              /\ first_reads' = flip
              /\ filtered' = result
              /\ primary_alignments' = shuffled
              /\ IF result = <<>>
                 THEN rng' = rng1 /\ memo' = memo1
                 ELSE /\ Repeats(memo1, rng1, call, shuffled)
                      /\ rng' = after_call(sra_acc, rng1, call)
                      /\ memo' = Remember(memo1, sra_acc, rng1, call, shuffled)
              /\ weighted_sense' = c.weighted_sense
              /\ weighted_checked' = c.weighted_checked
              /\ random_sense' = c.random_sense
              /\ random_checked' = c.random_checked
              /\ run_log' =
                    IF Tracked(sra_acc)
                    THEN [run_log EXCEPT ![exp_i] =
                            [ offsets  |-> @.offsets,
                              groups   |-> Append(@.groups, group),
                              flips    |-> Append(@.flips, flip),
                              orders   |-> Append(@.orders, shuffled),
                              counters |-> << c.random_sense,
                                              c.random_checked,
                                              c.weighted_sense,
                                              c.weighted_checked >> ]]
                    ELSE run_log
    /\ UNCHANGED <<collect, inputs, pc, exp_i, fetch_locals, logs, attempt, align_log,
                   tables, sense_call>>

\* round() of a non-negative float: to the nearest whole number, halves up
round(x) == ((2 * x + WeightUnit) \div (2 * WeightUnit)) * WeightUnit

\* the test on rounded counts
binom_test_rounded(x, n) == <<round(x), round(n)>>

\* stats.binom_test(x, n, 0.5), kept as its arguments
binom_test(x, n) == <<x, n>>

\* the aligned reads are exhausted: both tests, one row to each table
EndOfReads ==
    /\ pc = "groups"
    /\ pval_rand_file' = Append(pval_rand_file,
           [acc |-> sra_acc, p |-> binom_test(random_sense, random_checked)])
    /\ pval_weigh_file' = Append(pval_weigh_file,
           [acc |-> sra_acc, p |-> binom_test(weighted_sense, weighted_checked)])
    /\ groups_read' = 0
    /\ NoGroup
    /\ align_log' = <<>>
    /\ NextRow
    /\ UNCHANGED <<collect, prng, inputs, fetch_locals, logs, attempt, counters, sense_call>>

\* the csv reader is exhausted
EndOfInput ==
    /\ pc = "loop" /\ exp_i > Len(experiments)
    /\ pc' = "done"
    /\ UNCHANGED <<collect, prng, inputs, exp_i, fetch_locals, logs, attempt, align_log,
                   counters, group_locals, tables, sense_call>>

\* the groups the aligner is made to return in the run of the whole loop
MainGroups ==
    { << [flag |-> 0,
          tags |-> <<Field("AS:i:", "30"), Field("XS:A:", "+")>>] >>,
      << [flag |-> 83,
          tags |-> <<Field("AS:i:", "30"), Field("XS:A:", "+")>>],
         [flag |-> 147,
          tags |-> <<Field("AS:i:", "30"), Field("NH:i:", "1")>>] >> }

\* a read with three alignments of the same score and strand, which the
\* aligner is made to return last
TiedGroup ==
    [i \in 1..3 |-> [flag |-> 0,
                     tags |-> <<Field("AS:i:", "30"), Field("XS:A:", "+")>>]]

Next ==
    \/ SkipExperiment
    \/ BeginExperiment
    \/ SampleBin
    \/ SampleBinError
    \/ \E d \in AttemptSeconds : FetchFail(d)
    \/ \E n \in {8} : FetchSuccess(n)
    \/ FetchTimeOut
    \/ \E failure \in {0, 1} : AlignReads(failure)
    \/ AlignGiveUp
    \/ \E group \in MainGroups : ProcessGroup(group)
    \/ groups_read + 1 = MaxGroups /\ ProcessGroup(TiedGroup)
    \/ EndOfReads
    \/ EndOfInput

Spec == Init /\ [][Next]_vars

(***************************************************************************)
(* get_hisat_input alone: the rows are read and sampled up to the return   *)
(* of get_hisat_input or its TimeOut.  The program keeps running: every    *)
(* call of fastq-dump returns and every sleep ends.                        *)
(***************************************************************************)
NextFetch ==
    \/ SkipExperiment
    \/ BeginExperiment
    \/ SampleBin
    \/ SampleBinError
    \/ \E d \in AttemptSeconds : FetchFail(d)
    \/ \E n \in {8} : FetchSuccess(n)
    \/ FetchTimeOut

SpecFetch == Init /\ [][NextFetch]_vars /\ WF_vars(NextFetch)

(***************************************************************************)
(* The reshaping of the payloads of one experiment: every fetch succeeds   *)
(* at once and returns any number of lines up to MaxLines.                 *)
(***************************************************************************)
InitReshape ==
    /\ Init
    /\ read_multiplier = 2
    /\ \A i \in 1..Len(experiments) :
          /\ experiments[i].num_spots = minimum_spots + 4
          /\ i > 1 => ~experiments[i].paired

NextReshape ==
    \/ BeginExperiment
    \/ SampleBin
    \/ \E n \in 0..MaxLines : FetchSuccess(n)

SpecReshape == InitReshape /\ [][NextReshape]_vars

(***************************************************************************)
(* read_sense on its own: every flag up to MaxFlag, both strand tags       *)
(***************************************************************************)
Quiet ==
    /\ experiments = [i \in 1..Len(AccNames) |->
                        [acc |-> AccNames[i], num_spots |-> minimum_spots + 4,
                         paired |-> FALSE]]
    /\ required_reads = 3 /\ read_multiplier = 1
    /\ exp_i = 1
    /\ bin = 0 /\ start_spot = 0 /\ delay = 0 /\ dl_attempt = 0 /\ bin_time = 0
    /\ read_format = <<>> /\ lines = <<>> /\ requests = {} /\ sleeps = <<>>
    /\ fail_file = <<>> /\ timed_out = {} /\ gave_up = {}
    /\ attempt = 0 /\ align_log = <<>>
    /\ NoCounters /\ NoRandom
    /\ groups_read = 0
    /\ alignments = <<>> /\ first_reads = -1 /\ filtered = <<>>
    /\ primary_alignments = <<>>
    /\ pval_rand_file = <<>> /\ pval_weigh_file = <<>>

InitSense ==
    /\ Quiet /\ NoCollect
    /\ pc = "call"
    /\ SAM_flag \in 0..MaxFlag
    /\ plus_or_minus \in {<<"XS:A:+">>, <<"XS:A:-">>}
    /\ sense = FALSE

CallReadSense ==
    /\ pc = "call"
    /\ sense' = read_sense(SAM_flag, plus_or_minus)
    /\ pc' = "returned"
    /\ UNCHANGED <<collect, prng, inputs, exp_i, fetch_locals, logs, attempt, align_log,
                   counters, group_locals, tables, SAM_flag, plus_or_minus>>

NextSense == CallReadSense

SpecSense == InitSense /\ [][NextSense]_vars

(***************************************************************************)
(* The aggregation loop of one experiment on its own: alignment has just   *)
(* succeeded; the second group read is any group of Groups, the groups     *)
(* around it are groups of MainGroups.                                     *)
(***************************************************************************)
InitAgg ==
    /\ experiments \in { e \in [1..Len(AccNames) -> UNION {Rows(i) : i \in 1..Len(AccNames)}] :
                           \A i \in 1..Len(AccNames) :
                               /\ e[i].acc = AccNames[i]
                               /\ e[i].num_spots = minimum_spots + 4
                               /\ i > 1 => ~e[i].paired }
    /\ required_reads = 3 /\ read_multiplier = 1
    /\ pc = "groups"
    /\ exp_i = 1
    /\ bin = 0 /\ start_spot = 0 /\ delay = 0 /\ dl_attempt = 0 /\ bin_time = 0
    /\ read_format = <<>> /\ lines = <<>> /\ requests = {} /\ sleeps = <<>>
    /\ fail_file = <<>> /\ timed_out = {} /\ gave_up = {}
    /\ attempt = 1 /\ align_log = <<0>>
    /\ NoCounters /\ NoCollect /\ NoRandom
    /\ groups_read = 0
    /\ alignments = <<>> /\ first_reads = -1 /\ filtered = <<>>
    /\ primary_alignments = <<>>
    /\ pval_rand_file = <<>> /\ pval_weigh_file = <<>>
    /\ SAM_flag = 0 /\ plus_or_minus = <<"XS:A:+">> /\ sense = FALSE

NextAgg ==
    \/ \E group \in MainGroups :
          groups_read # 1 /\ ProcessGroup(group)
    \/ \E group \in Groups :
          groups_read = 1 /\ ProcessGroup(group)
    \/ pc = "groups" /\ exp_i = 1 /\ EndOfReads

SpecAgg == InitAgg /\ [][NextAgg]_vars

(***************************************************************************)
(* The loop of __main__ over a csv that holds one accession twice, with    *)
(* the same number of spots and layout: the second row is the accession    *)
(* run again, after an earlier experiment and with retries of its own.     *)
(* fastq-dump returns the same payload every time, and the aligner one of  *)
(* SeedGroups for every read.                                              *)
(***************************************************************************)
SeedGroups ==
    { << [flag |-> 0,
          tags |-> <<Field("AS:i:", "30"), Field("XS:A:", "+")>>] >>,
      << [flag |-> 83,
          tags |-> <<Field("AS:i:", "30"), Field("XS:A:", "+")>>],
         [flag |-> 147,
          tags |-> <<Field("AS:i:", "30"), Field("XS:A:", "+")>>] >> }

InitSeed ==
    /\ experiments \in
          { [i \in 1..Len(AccNames) |->
               [acc |-> AccNames[1], num_spots |-> minimum_spots + 4,
                paired |-> b]] : b \in BOOLEAN }
    /\ required_reads = 3 /\ read_multiplier = 2
    /\ pc = "loop"
    /\ exp_i = 1
    /\ bin = 0 /\ start_spot = 0 /\ delay = 0 /\ dl_attempt = 0 /\ bin_time = 0
    /\ read_format = <<>> /\ lines = <<>> /\ requests = {} /\ sleeps = <<>>
    /\ fail_file = <<>> /\ timed_out = {} /\ gave_up = {}
    /\ attempt = 0 /\ align_log = <<>>
    /\ NoCounters /\ NoCollect /\ NoRandom
    /\ groups_read = 0
    /\ alignments = <<>> /\ first_reads = -1 /\ filtered = <<>>
    /\ primary_alignments = <<>>
    /\ pval_rand_file = <<>> /\ pval_weigh_file = <<>>
    /\ SAM_flag = 0 /\ plus_or_minus = <<"XS:A:+">> /\ sense = FALSE

NextSeed ==
    \/ BeginExperiment
    \/ SampleBin
    \/ FetchFail(0)
    \/ \E n \in {8} : FetchSuccess(n)
    \/ FetchTimeOut
    \/ \E failure \in {0, 1} : AlignReads(failure)
    \/ AlignGiveUp
    \/ \E group \in SeedGroups : ProcessGroup(group)
    \/ EndOfReads
    \/ EndOfInput

SpecSeed == InitSeed /\ [][NextSeed]_vars

(***************************************************************************)
(* download_and_quantify_fastqs.py: __main__ calls collect_fastq_files on  *)
(* the sampled accessions, then unstrands and quantifies each of them.     *)
(***************************************************************************)
AccPool == {"SRR1", "SRR2", "SRR5575952"}

\* the accessions collect_fastq_files never downloads
SkipList == {"SRR5575952", "SRR2960573"}

\* random.sample of the lines of the stranded list: distinct accessions
Samples ==
    { a \in [1..Cardinality(AccPool) -> AccPool] :
         \A i, j \in 1..Cardinality(AccPool) : a[i] = a[j] => i = j }

\* everything of strandedness.py the download program has no part in
idle == <<prng, inputs, exp_i, bin, start_spot, read_format, lines, requests,
          gave_up, attempt, align_log, counters, group_locals, tables,
          sense_call>>

InitCollect ==
    /\ Quiet
    /\ SAM_flag = 0 /\ plus_or_minus = <<"XS:A:+">> /\ sense = FALSE
    /\ pc = "collect"
    /\ accession_numbers \in Samples
    /\ success_file \in {<<>>, <<"SRR1">>}
    /\ existing_fastqs = { success_file[i] : i \in 1..Len(success_file) }
    /\ acc_i = 1
    /\ attempted = {} /\ quantified = {}

this_acc == accession_numbers[acc_i]

\* "if acc in existing_fastqs or acc in [...]": continue
CollectSkip ==
    /\ pc = "collect" /\ acc_i <= Len(accession_numbers)
    /\ this_acc \in existing_fastqs \/ this_acc \in SkipList
    /\ acc_i' = acc_i + 1
    /\ UNCHANGED <<idle, pc, delay, dl_attempt, bin_time, sleeps, fail_file,
                   timed_out, accession_numbers, existing_fastqs,
                   success_file, attempted, quantified>>

\* the retry loop of acc is entered
CollectBegin ==
    /\ pc = "collect" /\ acc_i <= Len(accession_numbers)
    /\ ~(this_acc \in existing_fastqs \/ this_acc \in SkipList)
    /\ bin_time' = 0
    /\ delay' = 1
    /\ dl_attempt' = 1
    /\ sleeps' = <<>>
    /\ pc' = "download"
    /\ UNCHANGED <<idle, fail_file, timed_out, accession_numbers,
                   existing_fastqs, success_file, acc_i, attempted,
                   quantified>>

\* fastq-dump fails after d seconds
DownloadFail(d) ==
    /\ pc = "download" /\ bin_time <= collect_max_time
    /\ attempted' = attempted \cup {this_acc}
    /\ delay' = delay * collect_back_off
    /\ sleeps' = Append(sleeps, delay')
    /\ dl_attempt' = dl_attempt + 1
    /\ bin_time' = bin_time + d + delay'
    /\ UNCHANGED <<idle, pc, fail_file, timed_out, accession_numbers,
                   existing_fastqs, success_file, acc_i, quantified>>

\* fastq-dump succeeds: acc is appended to success_file, break
DownloadSuccess ==
    /\ pc = "download" /\ bin_time <= collect_max_time
    /\ attempted' = attempted \cup {this_acc}
    /\ success_file' = Append(success_file, this_acc)
    /\ acc_i' = acc_i + 1
    /\ pc' = "collect"
    /\ UNCHANGED <<idle, delay, dl_attempt, bin_time, sleeps, fail_file,
                   timed_out, accession_numbers, existing_fastqs, quantified>>

\* the while's else: acc is appended to fail_file and TimeOut is raised;
\* nothing in collect_fastq_files or __main__ catches it
DownloadTimeOut ==
    /\ pc = "download" /\ ~(bin_time <= collect_max_time)
    /\ fail_file' = Append(fail_file, this_acc)
    /\ timed_out' = timed_out \cup {this_acc}
    /\ pc' = "traceback"
    /\ UNCHANGED <<idle, delay, dl_attempt, bin_time, sleeps,
                   accession_numbers, existing_fastqs, success_file, acc_i,
                   attempted, quantified>>

\* collect_fastq_files returns: the loop over accession_numbers starts
CollectReturn ==
    /\ pc = "collect" /\ acc_i > Len(accession_numbers)
    /\ acc_i' = 1
    /\ pc' = "quantify"
    /\ UNCHANGED <<idle, delay, dl_attempt, bin_time, sleeps, fail_file,
                   timed_out, accession_numbers, existing_fastqs,
                   success_file, attempted, quantified>>

\* artificially_unstrand and call_salmon_quantification of acc
Quantify ==
    /\ pc = "quantify" /\ acc_i <= Len(accession_numbers)
    /\ quantified' = quantified \cup {this_acc}
    /\ acc_i' = acc_i + 1
    /\ UNCHANGED <<idle, pc, delay, dl_attempt, bin_time, sleeps, fail_file,
                   timed_out, accession_numbers, existing_fastqs,
                   success_file, attempted>>

\* the last accession is quantified: the program ends
QuantifyDone ==
    /\ pc = "quantify" /\ acc_i > Len(accession_numbers)
    /\ pc' = "exit"
    /\ UNCHANGED <<idle, delay, dl_attempt, bin_time, sleeps, fail_file,
                   timed_out, collect>>

NextCollect ==
    \/ CollectSkip
    \/ CollectBegin
    \/ \E d \in AttemptSeconds : DownloadFail(d)
    \/ DownloadSuccess
    \/ DownloadTimeOut
    \/ CollectReturn
    \/ Quantify
    \/ QuantifyDone

SpecCollect == InitCollect /\ [][NextCollect]_vars

(***************************************************************************)
(* Claims                                                                  *)
(***************************************************************************)
\* the powers of two of the binary expansion of n, from the power p up
RECURSIVE FlagBits(_, _)
FlagBits(n, p) ==
    IF n = 0 THEN {}
    ELSE (IF n % 2 = 1 THEN {p} ELSE {}) \cup FlagBits(n \div 2, 2 * p)

SenseBy(flag, plus) ==
    LET bits == FlagBits(flag, 1)
    IN  (plus # (16 \in bits)) <=> ((64 \in bits) \/ 1 \notin bits)

\* C1: for every SAM flag and either strand tag, read_sense returns
\* ((tag is '+') != (bit 16 set)) == ((bit 64 set) or not (bit 1 set)); so
\* read_sense(16,'-') and read_sense(0,'+') and read_sense(147,'+') are true,
\* read_sense(0,'-') and read_sense(16,'+') are false.
C1_ReadSenseFormula ==
    pc = "returned" =>
        /\ sense = SenseBy(SAM_flag, plus_or_minus = <<"XS:A:+">>)
        /\ (SAM_flag = 16 /\ plus_or_minus = <<"XS:A:-">>) => sense = TRUE
        /\ (SAM_flag = 0 /\ plus_or_minus = <<"XS:A:-">>) => sense = FALSE
        /\ (SAM_flag = 16 /\ plus_or_minus = <<"XS:A:+">>) => sense = FALSE
        /\ (SAM_flag = 0 /\ plus_or_minus = <<"XS:A:+">>) => sense = TRUE
        /\ (SAM_flag = 147 /\ plus_or_minus = <<"XS:A:+">>) => sense = TRUE

C1_Witness ==
    /\ pc = "returned" /\ SAM_flag = 147 /\ plus_or_minus = <<"XS:A:+">>
    /\ sense = TRUE

\* the last group has been through the loop body
GroupDone == pc = "groups" /\ groups_read > 0

HasScore(entry) == entry_scores(entry.tags) # <<>>
ScoreOf(entry) == entry_scores(entry.tags)[1]
IsTagged(entry) == XS_A(entry.tags) # <<>>

BestScore(group) ==
    CHOOSE m \in { ScoreOf(group[i]) : i \in { j \in 1..Len(group) : HasScore(group[j]) } } :
        \A i \in 1..Len(group) : HasScore(group[i]) => ScoreOf(group[i]) <= m

IsBest(group, entry) ==
    HasScore(entry) /\ ScoreOf(entry) = BestScore(group)

BestEntries(group) ==
    IF \A i \in 1..Len(group) : ~HasScore(group[i]) THEN <<>>
    ELSE LET Test(entry) == IsBest(group, entry) IN SelectSeq(group, Test)

\* C2: in single-end mode the list returned by filter_alignments is exactly
\* the records of the group whose score is the group's maximum parseable
\* score; a record without a score tag is never returned.
C2_PrimarySetIsMaxScore ==
    (GroupDone /\ ~paired) => filtered = BestEntries(alignments)

TaggedCount(list) == Cardinality({ i \in 1..Len(list) : IsTagged(list[i]) })

GroupStep == pc = "groups" /\ groups_read' = groups_read + 1

\* C3 as claimed: a group whose PrimarySet has a strand-tagged member adds
\* exactly 1 to weighted_checked.
C3_WeightedCheckedOne ==
    [][(GroupStep /\ TaggedCount(filtered') >= 1)
         => weighted_checked' = weighted_checked + WeightUnit]_vars

\* the distance of x from the fraction t/n, times n, in units
OffShare(x, t, n) ==
    IF x * n >= t * WeightUnit THEN x * n - t * WeightUnit
    ELSE t * WeightUnit - x * n

\* C3 amended: each strand-tagged member of the PrimarySet adds the float
\* 1/n to weighted_checked, n the number of members of the PrimarySet,
\* tagged or not: the group adds t/n for t tagged members, to within one
\* float spacing per addition, which is below 1 whenever a member is
\* untagged.
C3_WeightedCheckedShare ==
    [][(GroupStep /\ TaggedCount(filtered') >= 1)
         => LET n == Len(filtered')
                t == TaggedCount(filtered')
            IN  /\ OffShare(weighted_checked' - weighted_checked, t, n)
                      <= n * t * Ulp(weighted_checked')
                /\ t < n => weighted_checked' < weighted_checked + WeightUnit]_vars

C3_Witness ==
    /\ GroupDone /\ groups_read = MaxGroups
    /\ Len(filtered) = 2 /\ TaggedCount(filtered) = 1
    /\ weighted_checked > 0 /\ weighted_checked % WeightUnit # 0

FirstTagged(list) ==
    list[CHOOSE i \in 1..Len(list) :
            IsTagged(list[i]) /\ \A j \in 1..(i - 1) : ~IsTagged(list[j])]

\* C4: a group adds at most one observation to the single-draw counters:
\* when the shuffled PrimarySet has a strand-tagged member random_checked
\* grows by 1 and random_sense by the sense of the first tagged member in
\* shuffled order, whatever the later members are; otherwise neither moves.
C4_SingleDraw ==
    [][GroupStep =>
         IF TaggedCount(primary_alignments') >= 1
         THEN LET e == FirstTagged(primary_alignments')
              IN  /\ random_checked' = random_checked + 1
                  /\ random_sense' = random_sense
                        + Bit(SenseBy(e.flag, XS_A(e.tags)[1] = "XS:A:+"))
         ELSE /\ random_checked' = random_checked
              /\ random_sense' = random_sense]_vars

C4_Witness ==
    /\ GroupDone /\ groups_read > 1
    /\ Len(primary_alignments) = 2 /\ TaggedCount(primary_alignments) = 2
    /\ SenseBy(primary_alignments[1].flag,
               XS_A(primary_alignments[1].tags)[1] = "XS:A:+")
    /\ ~SenseBy(primary_alignments[2].flag,
                XS_A(primary_alignments[2].tags)[1] = "XS:A:+")
    /\ random_checked = groups_read

\* C5: in paired-end mode every record returned by filter_alignments has
\* its first-mate bit equal to the group's coin flip, so first and second
\* mates are never returned together.
C5_MateMatchesFlip ==
    (GroupDone /\ paired) =>
        /\ \A i \in 1..Len(filtered) :
              (64 \in FlagBits(filtered[i].flag, 1)) <=> (first_reads = 1)
        /\ \A i, j \in 1..Len(filtered) :
              (64 \in FlagBits(filtered[i].flag, 1))
                 <=> (64 \in FlagBits(filtered[j].flag, 1))

C5_Witness ==
    /\ GroupDone /\ paired /\ first_reads = 0
    /\ Len(filtered) = 1 /\ Len(alignments) = 2
    /\ \A i \in 1..2 : IsBest(alignments, alignments[i])
    /\ \E i \in 1..2 : 64 \in FlagBits(alignments[i].flag, 1)

Working == pc \in {"bin", "fetch", "align", "groups"}

\* C6: the range handed to the fetcher for bin b, from start_spot to
\* start_spot + bin_spots, lies inside [(b-1)*floor(T/B)+1, b*floor(T/B)],
\* and the ranges of two different bins do not overlap.
C6_SliceInsideBin ==
    Working =>
        /\ \A r \in requests :
              /\ (r[1] - 1) * (num_spots \div num_bins) + 1 <= r[2]
              /\ r[2] <= r[3]
              /\ r[3] <= r[1] * (num_spots \div num_bins)
        /\ \A r, q \in requests :
              r[1] # q[1] => (r[3] < q[2] \/ q[3] < r[2])

C6_Witness ==
    /\ pc = "fetch" /\ Cardinality(requests) = num_bins
    /\ \E r \in requests :
          /\ r[2] > (r[1] - 1) * (num_spots \div num_bins) + 1
          /\ r[3] > r[2]
          /\ r[3] = r[1] * (num_spots \div num_bins)

\* C7 as claimed: the wait after the n-th consecutive failure of one fetch
\* is 3^(n-1) seconds: 1, 3, 9, 27, ...
C7_WaitStartsAtOne ==
    pc = "fetch" => \A n \in 1..Len(sleeps) : sleeps[n] = Pow(3, n - 1)

\* C7 amended: delay starts at 1 and is multiplied by 3 before each wait,
\* so the wait after the n-th consecutive failure of one fetch is 3^n
\* seconds: 3, 9, 27, 81, ...
C7_WaitIsPowerOfThree ==
    pc = "fetch" =>
        /\ \A n \in 1..Len(sleeps) : sleeps[n] = Pow(3, n)
        /\ Len(sleeps) = dl_attempt - 1
        /\ delay = Pow(3, Len(sleeps))

C7_Witness ==
    /\ pc = "fetch" /\ Len(sleeps) = 4 /\ sleeps[4] = 81 /\ dl_attempt = 5

Contents(file) == { file[i] : i \in 1..Len(file) }
RowAccs(file) == { file[i].acc : i \in 1..Len(file) }

\* C8: the failure log holds the accession of every experiment whose fetch
\* has timed out so far; a later timeout removes no earlier entry.
C8_FailureLogKeepsAll ==
    \A acc \in timed_out : acc \in Contents(fail_file)

\* C9: when the fetch of a bin runs out of its time budget the experiment
\* is abandoned and nothing else: no bin of it is fetched afterwards, the
\* aligner is not run for it, no row for it enters either p-value table,
\* and the loop goes on with the next accession.
C9_TimeOutAbandonsExperiment ==
    [][/\ (pc = "fetch" /\ ~(bin_time <= max_time))
            => /\ pc' = "loop" /\ exp_i' = exp_i + 1
               /\ experiments[exp_i].acc \in timed_out'
               /\ UNCHANGED <<tables, counters, attempt, gave_up>>
       /\ pc' \in {"bin", "fetch", "align", "groups"}
            => experiments[exp_i'].acc \notin timed_out'
       /\ \A acc \in timed_out' :
              acc \notin RowAccs(pval_rand_file') \cup RowAccs(pval_weigh_file')
      ]_vars

C9_Witness ==
    /\ pc = "done" /\ timed_out = {AccNames[1]}
    /\ RowAccs(pval_rand_file) = {AccNames[2]}
    /\ RowAccs(pval_weigh_file) = {AccNames[2]}

\* C10: the aligner is run at most max_attempts times for an experiment
\* and not again after a run that exits with status zero; when all
\* max_attempts runs exit non-zero nothing is accumulated, no row is
\* written for the experiment and the loop goes on with the next accession.
C10_AlignAttemptsBounded ==
    [][/\ Len(align_log') <= max_attempts
       /\ \A i \in 1..(Len(align_log') - 1) : align_log'[i] # 0
       /\ (pc = "align" /\ Len(align_log) = max_attempts
             /\ \A i \in 1..max_attempts : align_log[i] # 0)
            => /\ pc' = "loop" /\ exp_i' = exp_i + 1
               /\ experiments[exp_i].acc \in gave_up'
               /\ UNCHANGED <<tables, counters>>
       /\ pc' = "groups" => experiments[exp_i'].acc \notin gave_up'
       /\ \A acc \in gave_up' :
              acc \notin RowAccs(pval_rand_file') \cup RowAccs(pval_weigh_file')
      ]_vars

C10_Witness ==
    /\ pc = "done" /\ gave_up = {AccNames[1]}
    /\ RowAccs(pval_rand_file) = {AccNames[2]}
    /\ attempt = 2

(***************************************************************************)
(* Frame of the aggregation loop.                                          *)
(***************************************************************************)
NoScore(group) == \A i \in 1..Len(group) : ~HasScore(group[i])

\* C11: a group changes the four counters only if the list returned for it
\* by filter_alignments (its PrimarySet) has a strand-tagged member: a
\* group without any score tag returns the empty list, and a group whose
\* returned list is empty or has no tagged member leaves random_sense,
\* random_checked, weighted_sense and weighted_checked as they were.
C11_UntaggedGroupChangesNothing ==
    [][GroupStep =>
         /\ NoScore(alignments') => filtered' = <<>>
         /\ TaggedCount(filtered') = 0 => UNCHANGED counters]_vars

C11_Witness ==
    /\ GroupDone /\ groups_read = MaxGroups
    /\ filtered # <<>> /\ TaggedCount(filtered) = 0
    /\ random_checked > 0 /\ weighted_checked > 0

(***************************************************************************)
(* Mate resolution.                                                        *)
(***************************************************************************)
\* index of the first record of list whose flag lacks bit 1, or Len + 1
FirstUnpaired(list) ==
    IF \A i \in 1..Len(list) : 1 \in FlagBits(list[i].flag, 1)
    THEN Len(list) + 1
    ELSE CHOOSE i \in 1..Len(list) :
            /\ 1 \notin FlagBits(list[i].flag, 1)
            /\ \A j \in 1..(i - 1) : 1 \in FlagBits(list[j].flag, 1)

MatesBefore(list, flip) ==
    LET Match(entry) == (64 \in FlagBits(entry.flag, 1)) <=> (flip = 1)
    IN  SelectSeq(SubSeq(list, 1, FirstUnpaired(list) - 1), Match)

\* C18: in paired-end mode the returned list is exactly the maximum-score
\* records, in group order, that precede the first maximum-score record
\* lacking flag bit 1 and whose bit 64 matches the coin flip.
C18_ScanStopsAtFirstUnpaired ==
    (GroupDone /\ paired) =>
        filtered = MatesBefore(BestEntries(alignments), first_reads)

(***************************************************************************)
(* The weighted test.                                                      *)
(***************************************************************************)
RowWritten == Len(pval_weigh_file') = Len(pval_weigh_file) + 1

LastRow(file) == file[Len(file)]

\* C13 as claimed: the weighted test of an experiment is computed from
\* round(weighted_sense) and round(weighted_checked).
C13_TestOnRoundedCounts ==
    [][RowWritten =>
         LastRow(pval_weigh_file').p
            = <<round(weighted_sense), round(weighted_checked)>>]_vars

\* C13 amended: the weighted test of an experiment is handed the two
\* accumulators weighted_sense and weighted_checked as they are, fractional
\* part included; the program rounds neither.
C13_TestOnRawAccumulators ==
    [][RowWritten =>
         /\ LastRow(pval_weigh_file').acc = sra_acc
         /\ LastRow(pval_weigh_file').p = <<weighted_sense, weighted_checked>>]_vars

C13_Witness ==
    /\ pval_weigh_file # <<>>
    /\ LastRow(pval_weigh_file).p[2] % WeightUnit # 0
    /\ LastRow(pval_weigh_file).p[2] > WeightUnit

(***************************************************************************)
(* The bins of an experiment.                                              *)
(***************************************************************************)
Sampling == pc \in {"bin", "fetch"}

BinsOf(spot) ==
    { b \in 1..num_bins :
         bin_start(b, num_spots) <= spot /\ spot <= bin_stop(b, num_spots) }

EqualContiguousBins ==
    /\ bin_start(1, num_spots) = 1
    /\ \A b \in 1..num_bins :
          bin_stop(b, num_spots) - bin_start(b, num_spots) + 1
             = num_spots \div num_bins
    /\ \A b \in 1..(num_bins - 1) :
          bin_start(b + 1, num_spots) = bin_stop(b, num_spots) + 1

\* C15 as claimed: the num_bins bins of an experiment of T spots are
\* contiguous and equally wide and partition 1..T: every spot of 1..T is in
\* exactly one bin.
C15_BinsPartitionAllSpots ==
    Sampling =>
        /\ EqualContiguousBins
        /\ \A spot \in 1..num_spots : Cardinality(BinsOf(spot)) = 1

\* C15 amended: the bins are contiguous from spot 1 and each is
\* floor(T / num_bins) wide, so they partition 1..num_bins * floor(T /
\* num_bins): every spot of that range is in exactly one bin, and the last
\* T mod num_bins spots of the experiment are in no bin.
C15_BinsPartitionWholeWidths ==
    Sampling =>
        /\ EqualContiguousBins
        /\ \A spot \in 1..num_spots :
              IF spot <= num_bins * (num_spots \div num_bins)
              THEN Cardinality(BinsOf(spot)) = 1
              ELSE BinsOf(spot) = {}

C15_Witness ==
    /\ pc = "fetch" /\ bin = num_bins + 1
    /\ num_spots % num_bins # 0
    /\ BinsOf(num_spots) = {}

(***************************************************************************)
(* Termination of the fetch of one bin.                                    *)
(***************************************************************************)
RECURSIVE WaitSum(_)
WaitSum(k) == IF k = 0 THEN 0 ELSE WaitSum(k - 1) + Pow(back_off, k)

\* the number of failures after which the waits alone exceed max_time
MaxFailures ==
    CHOOSE k \in 1..max_time : WaitSum(k) > max_time /\ WaitSum(k - 1) <= max_time

FetchEnds == pc = "fetch" /\ pc' # "fetch"

\* C16: the fetch of a bin ends, and ends either in success (the payload is
\* reshaped and the run goes on to the next bin or to the alignment) or in
\* TimeOut (the accession is recorded and its row abandoned), never both;
\* an attempt is started only while bin_time <= max_time, and a bin sees at
\* most MaxFailures failures, MaxFailures + 1 attempts.
C16_FetchTerminates ==
    /\ [](pc = "fetch" => (Len(sleeps) <= MaxFailures
                            /\ dl_attempt <= MaxFailures + 1))
    /\ [][(pc = "fetch" /\ dl_attempt' = dl_attempt + 1)
             => bin_time <= max_time]_vars
    /\ [][FetchEnds =>
             IF bin_time <= max_time
             THEN pc' \in {"bin", "align"} /\ timed_out' = timed_out
             ELSE pc' \in {"loop", "done"} /\ sra_acc \in timed_out']_vars
    /\ (pc = "fetch") ~> (pc # "fetch")

C16_Witness ==
    /\ pc = "fetch" /\ Len(sleeps) = MaxFailures /\ bin_time > max_time

(***************************************************************************)
(* The reshaper.                                                           *)
(***************************************************************************)
\* lines per block
BlockLines == 4 * (Bit(paired) + 1)

\* the lines of block j that make its unit
UnitOf(j) ==
    LET o == (j - 1) * BlockLines
    IN  <<o + 1, o + 2, o + 4>>
           \o (IF paired THEN <<o + 6, o + 8>> ELSE <<>>)

\* the units of a payload of N lines
UnitsOf(N) == [j \in 1..(N \div BlockLines) |-> UnitOf(j)]

Fetched == pc = "fetch" /\ pc' = "bin"

\* C12: a payload of N lines adds exactly floor(N / L) units to the
\* reshaped reads, L the block size, the j-th made of lines 1, 2, 4 (and 6,
\* 8 when paired) of block j; the lines of a truncated last block are in no
\* unit, and the units of earlier slices are kept as they were.
C12_OneUnitPerWholeBlock ==
    [][Fetched =>
         read_format' = read_format \o UnitsOf(Len(lines') - 1)]_vars

(***************************************************************************)
(* Failures of collect_fastq_files.                                        *)
(***************************************************************************)
ProgramOver == pc \in {"traceback", "exit"}

Sampled == { accession_numbers[i] : i \in 1..Len(accession_numbers) }

\* C17: a download that times out costs its own accession only: the
\* accession is in the failure log, and when the program is over every
\* sampled accession was attempted or skipped as already there, and every
\* sampled accession in the success log was unstranded and quantified.
C17_TimeOutSparesOtherAccessions ==
    /\ pc \in {"collect", "download", "quantify", "traceback", "exit"}
          => timed_out \subseteq Contents(fail_file)
    /\ ProgramOver =>
          /\ Sampled \subseteq attempted \cup existing_fastqs \cup SkipList
          /\ Sampled \cap Contents(success_file) \subseteq quantified

(***************************************************************************)
(* Ranges of the counters.                                                 *)
(***************************************************************************)
SingleDrawInRange ==
    /\ 0 <= random_sense /\ random_sense <= random_checked
    /\ random_checked <= groups_read

ResetBeforeFirstGroup ==
    groups_read = 0 =>
        /\ random_sense = 0 /\ random_checked = 0
        /\ weighted_sense = 0 /\ weighted_checked = 0

\* C19 as claimed: while the groups of an experiment are read,
\* 0 <= random_sense <= random_checked <= groups read so far and
\* 0 <= weighted_sense <= weighted_checked <= random_checked, and the four
\* counters are 0 before the first group of every experiment.
C19_CountersInRange ==
    pc = "groups" =>
        /\ SingleDrawInRange
        /\ 0 <= weighted_sense /\ weighted_sense <= weighted_checked
        /\ weighted_checked <= random_checked * WeightUnit
        /\ ResetBeforeFirstGroup

\* the records of the longest group of the run
MaxRecords == IF MaxGroupLen > 3 THEN MaxGroupLen ELSE 3

\* C19 amended: as claimed for the single-draw counters, for
\* weighted_sense <= weighted_checked and for the reset; weighted_checked
\* is a sum of rounded floats and stays below random_checked only up to
\* that rounding: it exceeds random_checked by less than one float spacing
\* per record added.
C19_CountersInRangeUpToRounding ==
    pc = "groups" =>
        /\ SingleDrawInRange
        /\ 0 <= weighted_sense /\ weighted_sense <= weighted_checked
        /\ weighted_checked
              <= random_checked * WeightUnit
                    + groups_read * MaxRecords * Ulp(weighted_checked)
        /\ weighted_checked < (random_checked + 1) * WeightUnit
        /\ ResetBeforeFirstGroup

C19_Witness ==
    /\ pc = "groups" /\ exp_i = 2 /\ groups_read = MaxGroups
    /\ Len(pval_weigh_file) = 1 /\ pval_weigh_file[1].p[2] > 0
    /\ weighted_checked > random_checked * WeightUnit

(***************************************************************************)
(* Reproducibility of an accession.                                        *)
(***************************************************************************)
SameExperiment(i, j) == experiments[i] = experiments[j]

Shorter(s, t) == IF Len(s) <= Len(t) THEN Len(s) ELSE Len(t)

\* C14: two rows of the same accession, spots and layout, for which the
\* tools return the same outputs, draw the same bin offsets, the same coin
\* flips and the same shuffles and end with the same four counters,
\* whatever was processed before either and however often a fetch or an
\* alignment was retried.
C14_SameAccessionSameDraws ==
    \A i, j \in 1..Len(experiments) :
        (i < j /\ SameExperiment(i, j)) =>
            LET a == run_log[i]
                b == run_log[j]
            IN  /\ \A k \in 1..Shorter(a.offsets, b.offsets) :
                      a.offsets[k] = b.offsets[k]
                /\ \A k \in 1..Shorter(a.groups, b.groups) :
                      SubSeq(a.groups, 1, k) = SubSeq(b.groups, 1, k)
                         => /\ a.flips[k] = b.flips[k]
                            /\ a.orders[k] = b.orders[k]
                /\ a.groups = b.groups => a.counters = b.counters

C14_Witness ==
    /\ pc = "groups" /\ exp_i = 2 /\ groups_read = MaxGroups
    /\ align_log = <<1, 0>>
    /\ run_log[1].groups = run_log[2].groups
    /\ run_log[2].counters[1] > 0
    /\ run_log[2].counters[1] < run_log[2].counters[2]
    /\ \E k \in 1..MaxGroups : Len(run_log[2].orders[k]) = 2

====
